---- MODULE Spec2Model ----
(***************************************************************************)
(* Model of src/js/sudoku.js: the Cell record, the Board (construction     *)
(* from a board definition, cell access, setCellValue, restart, the three  *)
(* traversals, hasWon, getConflicts) and a caller that writes into the     *)
(* Cell objects the accessors hand out.                                    *)
(*                                                                         *)
(* A Board's closure variable `cells` is the function 0..80 -> Cell.  An   *)
(* accessor hands out references: a reference is either the Board's own    *)
(* Cell object (internal = TRUE, the object stored at cells[idx]) or a     *)
(* fresh object outside the Board (internal = FALSE).                      *)
(***************************************************************************)
EXTENDS Integers, Sequences, FiniteSets, TLC

VARIABLES boardDef, status, cells, call, prevOp, ret, writes, boards,
          runner, visited

vars == <<boardDef, status, cells, call, prevOp, ret, writes, boards,
         runner, visited>>

(***************************************************************************)
(* Bounds of the model.                                                    *)
(***************************************************************************)
\* setCellValue and the caller's writes take their value from 0..MaxValue
MaxValue == 10
\* setCellValue and getCell are called on the first NumPlay play positions
NumPlay == 3
\* the construction inputs vary the digits at the first NumVaried indices
NumVaried == 2
\* a caller writes into returned Cell objects at most MaxWrites times
MaxWrites == 1

\* the player types into the first NumTyped of the played positions
NumTyped == 2

InputValues == 0 .. MaxValue

PlayPositions ==
    << <<1, 1>>, <<1, 2>>, <<2, 4>>, <<1, 5>>, <<1, 6>>, <<9, 9>> >>

Play == { PlayPositions[k] : k \in 1 .. NumPlay }

VariedIndices == << 0, 80, 40, 9, 8 >>

(***************************************************************************)
(* Characters and parseInt(ch, 10) on a one-character string.              *)
(***************************************************************************)
DigitChars == << "0", "1", "2", "3", "4", "5", "6", "7", "8", "9" >>

\* the result of parseInt on a character that is no decimal digit
NaN == -1

parseInt(ch) ==
    IF \E d \in 1 .. 10 : DigitChars[d] = ch
    THEN (CHOOSE d \in 1 .. 10 : DigitChars[d] = ch) - 1
    ELSE NaN

isNaN(num) == num = NaN

\* A value that is no number: the string "toString".  It stands for the
\* strings that name a property every object inherits from Object.prototype:
\* for such a key, obj[key] of an object literal {} is that property, a
\* function, which is neither undefined nor falsy and has no push method.
toStringName == -2

inheritedName(value) == value = toStringName

(***************************************************************************)
(* Index arithmetic and the Cell record.                                   *)
(***************************************************************************)
\* an index computed with row and column exchanged
calcCellIndexFromBoardPositionSwapped(row, col) == (col - 1) * 9 + (row - 1)

calcCellIndexFromBoardPosition(row, col) == (row - 1) * 9 + (col - 1)

calcBoardPositionFromIndexSwapped(idx) ==
    [row |-> (idx % 9) + 1, column |-> (idx \div 9) + 1]

calcBoardPositionFromIndex(idx) ==
    [row |-> (idx \div 9) + 1, column |-> (idx % 9) + 1]

Cell(row, col, val, fixed) ==
    [row |-> row, column |-> col, value |-> val, isFixed |-> fixed]

fromCell(cell) == Cell(cell.row, cell.column, cell.value, cell.isFixed)

(***************************************************************************)
(* Board.init.  A board definition is [isString, chars]: chars is the      *)
(* sequence of the characters of the string (empty for a value that is no  *)
(* string).  The result is the error thrown ("none" when init returns) and *)
(* the cells array.                                                        *)
(***************************************************************************)
invalidCellValue(num) == isNaN(num) \/ num < 0 \/ num > 9

initCell(def, i) ==
    LET pos == calcBoardPositionFromIndex(i)
        num == parseInt(def.chars[i + 1])
        fixed == num # 0
    IN  Cell(pos.row, pos.column, num, fixed)

\* an init without the length check: its loop runs over the characters given
initLengthUnchecked(def) ==
    IF ~def.isString
    THEN [error |-> "not a string", cells |-> << >>]
    ELSE IF \E n \in 1 .. Len(def.chars) :
                invalidCellValue(parseInt(def.chars[n]))
    THEN [error |-> "invalid cell value", cells |-> << >>]
    ELSE [error |-> "none",
          cells |-> [i \in 0 .. Len(def.chars) - 1 |-> initCell(def, i)]]

\* an init that looks at the characters before it looks at the length
initValuesFirst(def) ==
    IF ~def.isString
    THEN [error |-> "not a string", cells |-> << >>]
    ELSE IF \E n \in 1 .. Len(def.chars) :
                invalidCellValue(parseInt(def.chars[n]))
    THEN [error |-> "invalid cell value", cells |-> << >>]
    ELSE IF Len(def.chars) # 81
    THEN [error |-> "wrong length", cells |-> << >>]
    ELSE [error |-> "none", cells |-> [i \in 0 .. 80 |-> initCell(def, i)]]

init(def) ==
    IF ~def.isString
    THEN [error |-> "not a string", cells |-> << >>]
    ELSE IF Len(def.chars) # 81
    THEN [error |-> "wrong length", cells |-> << >>]
    ELSE IF \E i \in 0 .. 80 : invalidCellValue(parseInt(def.chars[i + 1]))
    THEN [error |-> "invalid cell value", cells |-> << >>]
    ELSE [error |-> "none", cells |-> [i \in 0 .. 80 |-> initCell(def, i)]]

(***************************************************************************)
(* getCellAtPosition: the Board's own object, or a copy of it.             *)
(***************************************************************************)
getCellAtPosition(cs, row, col, copy) ==
    LET idx == calcCellIndexFromBoardPosition(row, col)
    IN  IF copy
        THEN [internal |-> FALSE, idx |-> idx, cell |-> fromCell(cs[idx])]
        ELSE [internal |-> TRUE, idx |-> idx, cell |-> cs[idx]]

(***************************************************************************)
(* The callbacks handed to the traversals.  A callback gets `st`, the      *)
(* variables it closes over (with cells, the Board's array), and `visit`,  *)
(* its arguments: the index of the cell, the group key x and the new-group *)
(* flag newX.  It yields those variables as it leaves them, and ret, what  *)
(* it returns: "false" or "undefined".                                     *)
(***************************************************************************)

\* a hasWon callback whose test of the value is an assignment,
\* if (!(cell.value = 0))
wonCallbackAssigns(st, visit) ==
    [cells |-> [st.cells EXCEPT ![visit.idx].value = 0],
     usedNumbers |-> IF visit.newX THEN {} ELSE st.usedNumbers,
     won |-> FALSE,
     ret |-> "false"]

\* a hasWon callback without the test for an empty cell
wonCallbackIgnoresEmpty(st, visit) ==
    LET cell == st.cells[visit.idx]
        used == IF visit.newX THEN {} ELSE st.usedNumbers
        won == IF cell.value \in used THEN FALSE ELSE st.won
    IN  [cells |-> st.cells,
         usedNumbers |-> used \cup {cell.value},
         won |-> won,
         ret |-> IF ~won THEN "false" ELSE "undefined"]

\* a hasWon callback that never starts usedNumbers afresh
wonCallbackNeverResets(st, visit) ==
    LET cell == st.cells[visit.idx]
        used == st.usedNumbers
        won == IF cell.value = 0 THEN FALSE
               ELSE IF cell.value \in used THEN FALSE
               ELSE st.won
    IN  [cells |-> st.cells,
         usedNumbers |-> used \cup {cell.value},
         won |-> won,
         ret |-> IF ~won THEN "false" ELSE "undefined"]

\* the callback of check in hasWon; it closes over usedNumbers and won
wonCallback(st, visit) ==
    LET cell == st.cells[visit.idx]
        used == IF visit.newX THEN {} ELSE st.usedNumbers
        isUsed == cell.value \in used \/ inheritedName(cell.value)
        won == IF cell.value = 0 THEN FALSE
               ELSE IF isUsed THEN FALSE
               ELSE st.won
    IN  [cells |-> st.cells,
         usedNumbers |-> IF cell.value = 0 \/ isUsed
                         THEN used ELSE used \cup {cell.value},
         won |-> won,
         ret |-> IF ~won THEN "false" ELSE "undefined"]

\* $.each(cellsWithValue, ...) in getConflicts: cellsWithValue is a function
\* from the values seen in the group to the sequence of the cells pushed
\* (as indices into cells); $.each visits its integer keys in ascending order
\* a flush that reports a value only when more than two cells hold it
RECURSIVE flushBucketsMoreThanTwo(_, _, _)
flushBucketsMoreThanTwo(cellsWithValue, keys, conflicts) ==
    IF keys = {}
    THEN conflicts
    ELSE LET k == CHOOSE a \in keys : \A b \in keys : a <= b
             found == cellsWithValue[k]
         IN  flushBucketsMoreThanTwo(cellsWithValue, keys \ {k},
                          IF Len(found) > 2 THEN conflicts \o found
                          ELSE conflicts)

RECURSIVE flushBuckets(_, _, _)
flushBuckets(cellsWithValue, keys, conflicts) ==
    IF keys = {}
    THEN conflicts
    ELSE LET k == CHOOSE a \in keys : \A b \in keys : a <= b
             found == cellsWithValue[k]
         IN  flushBuckets(cellsWithValue, keys \ {k},
                          IF Len(found) > 1 THEN conflicts \o found
                          ELSE conflicts)

\* the callback of check in getConflicts; it closes over cellsWithValue and
\* conflicts.  For a value that names an inherited property,
\* cellsWithValue[cell.value] is not undefined and its push is no function:
\* the call throws a TypeError (ret "throw")
conflictsCallback(st, visit) ==
    LET value == st.cells[visit.idx].value
        flushed == IF visit.newX
                   THEN flushBuckets(st.cellsWithValue,
                                     DOMAIN st.cellsWithValue, st.conflicts)
                   ELSE st.conflicts
        buckets == IF visit.newX THEN << >> ELSE st.cellsWithValue
    IN  [cells |-> st.cells,
         cellsWithValue |->
             IF value = 0 \/ inheritedName(value) THEN buckets
             ELSE IF value \in DOMAIN buckets
             THEN [buckets EXCEPT ![value] = Append(@, visit.idx)]
             ELSE [k \in DOMAIN buckets \cup {value} |->
                      IF k = value THEN << visit.idx >> ELSE buckets[k]],
         conflicts |-> flushed,
         ret |-> IF inheritedName(value) THEN "throw" ELSE "undefined"]

\* a restart callback that returns false once it has reset a cell
restartCallbackStops(st, visit) ==
    LET cell == st.cells[visit.idx]
    IN  [cells |-> IF ~cell.isFixed
                   THEN [st.cells EXCEPT ![visit.idx].value = 0]
                   ELSE st.cells,
         ret |-> IF ~cell.isFixed /\ cell.value # 0
                 THEN "false" ELSE "undefined"]

\* a restart callback that resets the fixed cells too
restartCallbackAll(st, visit) ==
    [cells |-> [st.cells EXCEPT ![visit.idx].value = 0], ret |-> "undefined"]

\* the callback of restart
restartCallback(st, visit) ==
    LET cell == st.cells[visit.idx]
    IN  [cells |-> IF ~cell.isFixed
                   THEN [st.cells EXCEPT ![visit.idx].value = 0]
                   ELSE st.cells,
         ret |-> "undefined"]

\* a callback that records the arguments of each invocation (the row and
\* column of the cell it is given, x and newX) and returns false on its
\* stopAt-th invocation; stopAt = 0 is the callback that never returns false
recordCallback(st, visit) ==
    LET cell == st.cells[visit.idx]
        invocation == [row |-> cell.row, column |-> cell.column,
                       x |-> visit.x, newX |-> visit.newX]
    IN  [cells |-> st.cells,
         visited |-> Append(st.visited, invocation),
         stopAt |-> st.stopAt,
         ret |-> IF Len(st.visited) + 1 = st.stopAt
                 THEN "false" ELSE "undefined"]

\* cb(cell, x, newX) for the callback that `kind` names
cb(kind, st, visit) ==
    CASE kind = "hasWon" -> wonCallback(st, visit)
      [] kind = "getConflicts" -> conflictsCallback(st, visit)
      [] kind = "restart" -> restartCallback(st, visit)
      [] kind = "record" -> recordCallback(st, visit)

(***************************************************************************)
(* The three traversals.  Each is two nested loops, the outer over the 9   *)
(* groups and the inner over the 9 cells of a group; xxxVisit is the cell  *)
(* and the arguments the callback gets at (outer, inner).  A callback that *)
(* returns false ends the traversal, and so does one that throws.          *)
(***************************************************************************)
rowVisit(row, col) ==
    [idx |-> calcCellIndexFromBoardPosition(row, col),
     x |-> row, newX |-> (col = 1)]

\* variant: the column traversal asks for the cell at (col, row)
columnVisitTransposed(col, row) ==
    [idx |-> calcCellIndexFromBoardPosition(col, row),
     x |-> col, newX |-> (row = 1)]

columnVisit(col, row) ==
    [idx |-> calcCellIndexFromBoardPosition(row, col),
     x |-> col, newX |-> (row = 1)]

\* variant: the boxes are numbered down the columns of boxes
boxVisitColumnMajor(box, inBox) ==
    LET boxIdx == box - 1
        inBoxIdx == inBox - 1
        firstCellIdx == (boxIdx % 3) * 27 + ((boxIdx \div 3) * 3)
        cellIndices ==
            << firstCellIdx,      firstCellIdx + 1,  firstCellIdx + 2,
               firstCellIdx + 9,  firstCellIdx + 10, firstCellIdx + 11,
               firstCellIdx + 18, firstCellIdx + 19, firstCellIdx + 20 >>
    IN  [idx |-> cellIndices[inBoxIdx + 1],
         x |-> boxIdx + 1, newX |-> (inBoxIdx = 0)]

boxVisit(box, inBox) ==
    LET boxIdx == box - 1
        inBoxIdx == inBox - 1
        firstCellIdx == (boxIdx \div 3) * 27 + ((boxIdx % 3) * 3)
        cellIndices ==
            << firstCellIdx,      firstCellIdx + 1,  firstCellIdx + 2,
               firstCellIdx + 9,  firstCellIdx + 10, firstCellIdx + 11,
               firstCellIdx + 18, firstCellIdx + 19, firstCellIdx + 20 >>
    IN  [idx |-> cellIndices[inBoxIdx + 1],
         x |-> boxIdx + 1, newX |-> (inBoxIdx = 0)]

visitAt(walkFun, outer, inner) ==
    CASE walkFun = "walkCellsByRow" -> rowVisit(outer, inner)
      [] walkFun = "walkCellsByColumn" -> columnVisit(outer, inner)
      [] walkFun = "walkCellsByBox" -> boxVisit(outer, inner)

RECURSIVE innerLoop(_, _, _, _, _)
innerLoop(walkFun, kind, outer, inner, st) ==
    IF inner > 9
    THEN st
    ELSE LET after == cb(kind, st, visitAt(walkFun, outer, inner))
         IN  IF after.ret = "false" \/ after.ret = "throw"
             THEN after
             ELSE innerLoop(walkFun, kind, outer, inner + 1, after)

\* variant: a callback that returns false ends the inner loop only
RECURSIVE outerLoopBreaks(_, _, _, _)
outerLoopBreaks(walkFun, kind, outer, st) ==
    IF outer > 9
    THEN st
    ELSE LET after == innerLoop(walkFun, kind, outer, 1, st)
         IN  IF after.ret = "throw"
             THEN after
             ELSE outerLoopBreaks(walkFun, kind, outer + 1, after)

RECURSIVE outerLoop(_, _, _, _)
outerLoop(walkFun, kind, outer, st) ==
    IF outer > 9
    THEN st
    ELSE LET after == innerLoop(walkFun, kind, outer, 1, st)
         IN  IF after.ret = "false" \/ after.ret = "throw"
             THEN after
             ELSE outerLoop(walkFun, kind, outer + 1, after)

walkCellsByRow(kind, st) == outerLoop("walkCellsByRow", kind, 1, st)

walkCellsByColumn(kind, st) == outerLoop("walkCellsByColumn", kind, 1, st)

walkCellsByBox(kind, st) == outerLoop("walkCellsByBox", kind, 1, st)

walkCells(walkFun, kind, st) ==
    CASE walkFun = "walkCellsByRow" -> walkCellsByRow(kind, st)
      [] walkFun = "walkCellsByColumn" -> walkCellsByColumn(kind, st)
      [] walkFun = "walkCellsByBox" -> walkCellsByBox(kind, st)

(***************************************************************************)
(* Board.hasWon.                                                           *)
(***************************************************************************)
\* check(walkFun) of hasWon, entered with `won`: won and cells after it.
\* The result of the walk is bound as the element of a one-element set, so
\* that it is computed once
checkWon(cs, walkFun, won) ==
    CHOOSE result \in
        { [cells |-> after.cells, won |-> after.won]
          : after \in { walkCells(walkFun, "hasWon",
                            [cells |-> cs, usedNumbers |-> {}, won |-> won,
                             ret |-> "undefined"]) } }
        : TRUE

\* the body of hasWon: the value it returns, won, and cells as it leaves them
hasWonRun(cs) ==
    CHOOSE result \in
        { IF ~check2.won
          THEN checkWon(check2.cells, "walkCellsByBox", check2.won)
          ELSE check2
          : check2 \in
              { IF ~check1.won
                THEN checkWon(check1.cells, "walkCellsByColumn", check1.won)
                ELSE check1
                : check1 \in { checkWon(cs, "walkCellsByRow", TRUE) } } }
        : TRUE

hasWon(cs) == hasWonRun(cs).won

(***************************************************************************)
(* Board.getConflicts.  unique keeps the first of the elements that are    *)
(* the same object; the sort orders by row, then column.                   *)
(***************************************************************************)
\* check(walkFun) of getConflicts: the walk, then the last group's buckets.
\* `run` holds cells, conflicts and ret, "throw" once a callback has thrown.
\* The result of the walk is bound as the element of a one-element set, so
\* that it is computed once
checkConflicts(run, walkFun) ==
    CHOOSE result \in
        { IF after.ret = "throw"
          THEN [cells |-> after.cells, conflicts |-> after.conflicts,
                ret |-> "throw"]
          ELSE [cells |-> after.cells,
                conflicts |-> flushBuckets(after.cellsWithValue,
                                           DOMAIN after.cellsWithValue,
                                           after.conflicts),
                ret |-> "undefined"]
          : after \in { walkCells(walkFun, "getConflicts",
                            [cells |-> prev.cells, cellsWithValue |-> << >>,
                             conflicts |-> prev.conflicts,
                             ret |-> "undefined"]) : prev \in {run} } }
        : TRUE

RECURSIVE uniqueFrom(_, _, _)
uniqueFrom(arr, n, result) ==
    IF n > Len(arr)
    THEN result
    ELSE IF \E j \in 1 .. Len(result) : result[j] = arr[n]
    THEN uniqueFrom(arr, n + 1, result)
    ELSE uniqueFrom(arr, n + 1, Append(result, arr[n]))

\* a unique that drops nothing
uniqueKeepsAll(arr) == arr

unique(arr) == uniqueFrom(arr, 1, << >>)

\* a comparison function that looks at the rows only
compareCellsRowOnly(a, b) ==
    IF a.row < b.row THEN -1
    ELSE IF a.row > b.row THEN 1
    ELSE 0

\* the comparison function handed to Array.prototype.sort
compareCells(a, b) ==
    IF a.row < b.row THEN -1
    ELSE IF a.row > b.row THEN 1
    ELSE IF a.column < b.column THEN -1
    ELSE IF a.column > b.column THEN 1
    ELSE 0

\* conflicts.sort(compare): arr with its elements, as many as there are, put
\* in the order of compare; elements that compare as equal keep their order
sort(cs, arr) ==
    LET precedes(j, k) ==
            \/ compareCells(cs[arr[j]], cs[arr[k]]) < 0
            \/ compareCells(cs[arr[j]], cs[arr[k]]) = 0 /\ j < k
        rank(k) == Cardinality({ j \in 1 .. Len(arr) : precedes(j, k) })
    IN  [n \in 1 .. Len(arr) |->
            arr[CHOOSE k \in 1 .. Len(arr) : rank(k) = n - 1]]

\* the three checks of getConflicts: cells and conflicts (as indices into
\* cells) after them, and ret "throw" when one of them threw
getConflictsRun(cs) ==
    CHOOSE result \in
        { IF check2.ret = "throw" THEN check2
          ELSE checkConflicts(check2, "walkCellsByBox")
          : check2 \in
              { IF check1.ret = "throw" THEN check1
                ELSE checkConflicts(check1, "walkCellsByColumn")
                : check1 \in
                    { checkConflicts([cells |-> cs, conflicts |-> << >>,
                                      ret |-> "undefined"],
                                     "walkCellsByRow") } } }
        : TRUE

\* conflicts after check(walkCellsByRow), check(walkCellsByColumn) and
\* check(walkCellsByBox), as indices into cells
allConflicts(cs) == getConflictsRun(cs).conflicts

\* the array getConflicts returns, as indices into cells: its elements are
\* the Board's own Cell objects
conflictIndices(cs) == sort(cs, unique(allConflicts(cs)))

RECURSIVE internalRefs(_, _, _, _)
internalRefs(cs, found, n, result) ==
    IF n > Len(found)
    THEN result
    ELSE internalRefs(cs, found, n + 1,
             Append(result, [internal |-> TRUE, idx |-> found[n],
                             cell |-> cs[found[n]]]))

getConflicts(cs) == internalRefs(cs, conflictIndices(cs), 1, << >>)

(***************************************************************************)
(* Board.getCell and Board.getBoard.  getBoard is $.extend(true, [],       *)
(* cells): a new array of 81 elements.  What its elements are depends on   *)
(* the jQuery the page loads, which is not part of the source file: before *)
(* jQuery 1.4 a deep extend clones every object it meets, from 1.4 on it   *)
(* clones plain objects and arrays only and copies an object made by a     *)
(* constructor, as a Cell is, by reference.  getBoard is the set of the    *)
(* arrays the call can return.                                             *)
(***************************************************************************)
getCell(cs, row, col) == getCellAtPosition(cs, row, col, TRUE)

getBoard(cs) ==
    { [i \in 0 .. 80 |->
          [internal |-> byReference, idx |-> i,
           cell |-> IF byReference THEN cs[i] ELSE fromCell(cs[i])]]
      : byReference \in BOOLEAN }

(***************************************************************************)
(* Board.setCellValue and Board.restart on the cells array.                *)
(***************************************************************************)
setCellValueUnguarded(cs, row, col, value) ==
    LET got == getCellAtPosition(cs, row, col, FALSE)
    IN  [cells |-> [cs EXCEPT ![got.idx].value = value],
         ret |-> ~got.cell.isFixed]

setCellValueReturnsFixed(cs, row, col, value) ==
    LET got == getCellAtPosition(cs, row, col, FALSE)
    IN  [cells |-> IF ~got.cell.isFixed
                   THEN [cs EXCEPT ![got.idx].value = value] ELSE cs,
         ret |-> got.cell.isFixed]

setCellValueSkipsZero(cs, row, col, value) ==
    LET got == getCellAtPosition(cs, row, col, FALSE)
    IN  [cells |-> IF ~got.cell.isFixed /\ value # 0
                   THEN [cs EXCEPT ![got.idx].value = value] ELSE cs,
         ret |-> ~got.cell.isFixed]

\* variant: the index is computed from the row as 1-based and the column as
\* 0-based, so the cell to the right is the one tested and written
setCellValueOffByOne(cs, row, col, value) ==
    LET idx == (row - 1) * 9 + col
    IN  [cells |-> IF ~cs[idx].isFixed
                   THEN [cs EXCEPT ![idx].value = value] ELSE cs,
         ret |-> ~cs[idx].isFixed]

setCellValue(cs, row, col, value) ==
    LET got == getCellAtPosition(cs, row, col, FALSE)
    IN  [cells |-> IF ~got.cell.isFixed
                   THEN [cs EXCEPT ![got.idx].value = value] ELSE cs,
         ret |-> ~got.cell.isFixed]

restart(cs) ==
    walkCellsByRow("restart", [cells |-> cs, ret |-> "undefined"]).cells

\* what a caller's assignment to a field of a returned Cell does to cells
\* Two Boards.  `var cells = []` runs in each call of the constructor, so the
\* closures of a Board refer to an array of that Board's own: cellsOf names
\* the array the methods of Board number `board` use, and `boards` maps each
\* array to its contents.
\* a cells array that is declared once, outside the constructor
cellsOfShared(board) == 1

cellsOf(board) == board

\* new Board(def) as Board number `board`, when it succeeds
construct(board, def, arrays) ==
    [a \in DOMAIN arrays \cup {cellsOf(board)} |->
        IF a = cellsOf(board) THEN init(def).cells ELSE arrays[a]]

writeField(cs, ref, field, v) ==
    IF ref.internal
    THEN [cs EXCEPT ![ref.idx] = [@ EXCEPT ![field] = v]]
    ELSE cs

(***************************************************************************)
(* Board definitions.                                                      *)
(***************************************************************************)
stringOf(digits) ==
    [isString |-> TRUE,
     chars |-> [n \in 1 .. Len(digits) |-> DigitChars[digits[n] + 1]]]

\* the digits of the first entry of module.sudokuBoards
sudokuBoards1 ==
    << 0, 0, 0, 0, 9, 1, 0, 0, 0,
       0, 0, 0, 7, 0, 0, 6, 0, 0,
       0, 0, 1, 0, 0, 3, 0, 4, 0,
       0, 0, 2, 0, 5, 0, 4, 0, 6,
       0, 9, 0, 0, 0, 6, 0, 0, 7,
       0, 7, 8, 4, 0, 0, 0, 1, 0,
       0, 8, 0, 3, 0, 9, 1, 0, 0,
       4, 0, 6, 8, 1, 0, 0, 0, 0,
       0, 3, 0, 0, 0, 0, 0, 0, 0 >>

\* a complete grid in which every row, column and box is a permutation of 1..9
SolvedDigits ==
    [n \in 1 .. 81 |->
        LET r == (n - 1) \div 9
            c == (n - 1) % 9
        IN  ((3 * r + (r \div 3) + c) % 9) + 1]

\* `digits` with the cells at the given board positions emptied
blankAt(digits, positions) ==
    [n \in 1 .. 81 |->
        IF \E p \in positions :
               calcCellIndexFromBoardPosition(p[1], p[2]) = n - 1
        THEN 0 ELSE digits[n]]

\* `digits` with the digit at index i (from 0) replaced by d
withDigit(digits, i, d) ==
    [n \in 1 .. 81 |-> IF n = i + 1 THEN d ELSE digits[n]]

RECURSIVE variants(_, _)
variants(digits, k) ==
    IF k = 0
    THEN {digits}
    ELSE { withDigit(v, VariedIndices[k], d) :
             v \in variants(digits, k - 1), d \in 0 .. 9 }

\* the boards that are played
PlayDefinitions ==
    { stringOf(blankAt(SolvedDigits, {PlayPositions[1], PlayPositions[2]})),
      stringOf(blankAt(SolvedDigits, {PlayPositions[1]})),
      stringOf(SolvedDigits),
      stringOf(blankAt(sudokuBoards1, {PlayPositions[6]})) }

\* the pairs of definitions two Boards are constructed from: the same
\* string twice, and two strings
TwoDefinitions ==
    { << stringOf(blankAt(SolvedDigits, {PlayPositions[1]})),
         stringOf(blankAt(SolvedDigits, {PlayPositions[1]})) >>,
      << stringOf(blankAt(SolvedDigits, {PlayPositions[1]})),
         stringOf(blankAt(SolvedDigits, {PlayPositions[1],
                                         PlayPositions[2]})) >> }

\* the boards that are queried with hasWon and getConflicts
QueryDefinitions ==
    { stringOf(blankAt(SolvedDigits, {PlayPositions[1], PlayPositions[2]})),
      stringOf(blankAt(SolvedDigits, {PlayPositions[1]})) }

\* the values setCellValue is given there: numbers, and a string
QueryValues == InputValues \cup {toStringName}

\* the board a caller that writes into returned cells plays
CallerDefinitions ==
    { stringOf(blankAt(SolvedDigits, {PlayPositions[1]})) }

\* inputs of the constructor that are 81 decimal digits
ValidInputs ==
    { stringOf(v) : v \in variants(sudokuBoards1, NumVaried)
                          \cup variants(SolvedDigits, NumVaried) }

\* inputs of the constructor that init rejects
InvalidInputs ==
    LET good == stringOf(sudokuBoards1).chars
    IN  { [isString |-> FALSE, chars |-> << >>],
          [isString |-> FALSE, chars |-> good],
          [isString |-> FALSE, chars |-> Append(good, "x")],
          [isString |-> TRUE, chars |-> << >>],
          [isString |-> TRUE, chars |-> SubSeq(good, 1, 80)],
          [isString |-> TRUE, chars |-> Append(good, "0")],
          [isString |-> TRUE, chars |-> Append(good, "x")] }
    \cup { [isString |-> TRUE,
            chars |-> [n \in 1 .. 81 |-> IF n = i + 1 THEN ch ELSE good[n]]]
           : i \in {0, 40, 80}, ch \in {"x", "-", " ", "."} }

ConstructInputs == ValidInputs \cup InvalidInputs

(***************************************************************************)
(* States and actions.                                                     *)
(*   boardDef  the argument of new Board(boardDef)                         *)
(*   status    "pending" before the constructor runs, "ok" once it has     *)
(*             returned a Board, else the cause of the error thrown        *)
(*   cells     the Board's cells array                                     *)
(*   call      the last call made, with its arguments                      *)
(*   prevOp    the operation of the call before it                         *)
(*   ret       what the last call returned                                 *)
(*   writes    how many writes into returned cells the caller has made     *)
(*   boards    where two Boards exist, the cells array of each; else empty *)
(***************************************************************************)
NoArgs(op) == [op |-> op, row |-> 0, col |-> 0, value |-> 0]

\* a SudokuRunner as constructed: activeCell null (the empty tuple), hasWon
\* false, no conflicts, and nothing drawn
NoRunner ==
    [activeCell |-> << >>, hasWon |-> FALSE, conflicts |-> << >>,
     canvas |-> << >>]

toRet(b) == IF b THEN "true" ELSE "false"

\* a Board constructed from one of the played definitions
Init ==
    /\ boardDef \in PlayDefinitions
    /\ status = "ok"
    /\ cells = init(boardDef).cells
    /\ call = NoArgs("new")
    /\ prevOp = "none"
    /\ ret = "undefined"
    /\ writes = 0
    /\ boards = << >>
    /\ runner = NoRunner
    /\ visited = << >>

InitCaller ==
    /\ boardDef \in CallerDefinitions
    /\ status = "ok"
    /\ cells = init(boardDef).cells
    /\ call = NoArgs("new")
    /\ prevOp = "none"
    /\ ret = "undefined"
    /\ writes = 0
    /\ boards = << >>
    /\ runner = NoRunner
    /\ visited = << >>

InitQuery ==
    /\ boardDef \in QueryDefinitions
    /\ status = "ok"
    /\ cells = init(boardDef).cells
    /\ call = NoArgs("new")
    /\ prevOp = "none"
    /\ ret = "undefined"
    /\ writes = 0
    /\ boards = << >>
    /\ runner = NoRunner
    /\ visited = << >>

\* two Boards, the second constructed after the first
InitTwo ==
    /\ boardDef \in TwoDefinitions
    /\ status = "ok"
    /\ cells = << >>
    /\ call = NoArgs("new")
    /\ prevOp = "none"
    /\ ret = "undefined"
    /\ writes = 0
    /\ boards = construct(2, boardDef[2], construct(1, boardDef[1], << >>))
    /\ runner = NoRunner
    /\ visited = << >>

\* before new Board(boardDef), for any input of the constructor
InitConstruct ==
    /\ boardDef \in ConstructInputs
    /\ status = "pending"
    /\ cells = << >>
    /\ call = NoArgs("none")
    /\ prevOp = "none"
    /\ ret = "undefined"
    /\ writes = 0
    /\ boards = << >>
    /\ runner = NoRunner
    /\ visited = << >>

Construct ==
    /\ status = "pending"
    /\ LET built == init(boardDef)
       IN  /\ status' = IF built.error = "none" THEN "ok" ELSE built.error
           /\ cells' = built.cells
    /\ call' = NoArgs("new")
    /\ prevOp' = call.op
    /\ UNCHANGED <<boardDef, ret, writes, boards, runner, visited>>

SetCellValue(row, col, value) ==
    /\ status = "ok"
    /\ LET done == setCellValue(cells, row, col, value)
       IN  /\ cells' = done.cells
           /\ ret' = toRet(done.ret)
    /\ call' = [op |-> "setCellValue", row |-> row, col |-> col,
                value |-> value]
    /\ prevOp' = call.op
    /\ UNCHANGED <<boardDef, status, writes, boards, runner, visited>>

Restart ==
    /\ status = "ok"
    /\ cells' = restart(cells)
    /\ ret' = "undefined"
    /\ call' = NoArgs("restart")
    /\ prevOp' = call.op
    /\ UNCHANGED <<boardDef, status, writes, boards, runner, visited>>

\* hasWon(): ret is what it returns
HasWon ==
    /\ status = "ok"
    /\ \E run \in {hasWonRun(cells)} :
          /\ cells' = run.cells
          /\ ret' = toRet(run.won)
    /\ call' = NoArgs("hasWon")
    /\ prevOp' = call.op
    /\ UNCHANGED <<boardDef, status, writes, boards, runner, visited>>

\* getConflicts(): ret is "array" when it returns its array and "TypeError"
\* when it throws
GetConflicts ==
    /\ status = "ok"
    /\ \E run \in {getConflictsRun(cells)} :
          /\ cells' = run.cells
          /\ ret' = IF run.ret = "throw" THEN "TypeError" ELSE "array"
    /\ call' = NoArgs("getConflicts")
    /\ prevOp' = call.op
    /\ UNCHANGED <<boardDef, status, writes, boards, runner, visited>>

\* setCellValue(row, col, value) of the Board `board`, one of two
SetCellValueOn(board, row, col, value) ==
    /\ status = "ok"
    /\ LET done == setCellValue(boards[cellsOf(board)], row, col, value)
       IN  /\ boards' = [boards EXCEPT ![cellsOf(board)] = done.cells]
           /\ ret' = toRet(done.ret)
    /\ call' = [op |-> "setCellValue", row |-> row, col |-> col,
                value |-> value, board |-> board]
    /\ prevOp' = call.op
    /\ UNCHANGED <<boardDef, status, cells, writes, runner, visited>>

\* restart() of the Board `board`, one of two
RestartOn(board) ==
    /\ status = "ok"
    /\ boards' = [boards EXCEPT ![cellsOf(board)] = restart(@)]
    /\ ret' = "undefined"
    /\ call' = [op |-> "restart", row |-> 0, col |-> 0, value |-> 0,
                board |-> board]
    /\ prevOp' = call.op
    /\ UNCHANGED <<boardDef, status, cells, writes, runner, visited>>

\* the arrays cells can be after a caller's assignment of a value to .value
\* or of a boolean to .isFixed of the returned Cell `ref`
callerWrites(cs, ref) ==
    { writeField(cs, ref, "value", v) : v \in InputValues }
    \cup { writeField(cs, ref, "isFixed", b) : b \in BOOLEAN }

\* the caller assigns to a field of the Cell that getCell(row, col) returned
WriteGetCell ==
    /\ status = "ok"
    /\ writes < MaxWrites
    /\ \E p \in Play :
          /\ cells' \in callerWrites(cells, getCell(cells, p[1], p[2]))
          /\ call' = [op |-> "writeGetCell", row |-> p[1], col |-> p[2],
                      value |-> 0]
    /\ prevOp' = call.op
    /\ ret' = "undefined"
    /\ writes' = writes + 1
    /\ UNCHANGED <<boardDef, status, boards, runner, visited>>

\* the caller assigns to a field of an element of the array getBoard returned
WriteGetBoard ==
    /\ status = "ok"
    /\ writes < MaxWrites
    /\ \E p \in Play, board \in getBoard(cells) :
          /\ cells' \in callerWrites(cells,
                            board[calcCellIndexFromBoardPosition(p[1], p[2])])
          /\ call' = [op |-> "writeGetBoard", row |-> p[1], col |-> p[2],
                      value |-> 0]
    /\ prevOp' = call.op
    /\ ret' = "undefined"
    /\ writes' = writes + 1
    /\ UNCHANGED <<boardDef, status, boards, runner, visited>>

\* the caller assigns to a field of a Cell of the array getConflicts returned
WriteGetConflicts ==
    /\ status = "ok"
    /\ writes < MaxWrites
    /\ \E found \in {getConflicts(cells)} :
          \E k \in 1 .. Len(found) :
             /\ cells' \in callerWrites(cells, found[k])
             /\ call' = [op |-> "writeGetConflicts",
                         row |-> found[k].cell.row,
                         col |-> found[k].cell.column, value |-> 0]
    /\ prevOp' = call.op
    /\ ret' = "undefined"
    /\ writes' = writes + 1
    /\ UNCHANGED <<boardDef, status, boards, runner, visited>>

Next ==
    \/ \E p \in Play, v \in InputValues : SetCellValue(p[1], p[2], v)
    \/ Restart

NextCaller ==
    \/ \E v \in InputValues :
          SetCellValue(PlayPositions[1][1], PlayPositions[1][2], v)
    \/ Restart
    \/ WriteGetCell
    \/ WriteGetBoard
    \/ WriteGetConflicts

NextQuery ==
    \/ \E k \in 1 .. 2, v \in QueryValues :
          SetCellValue(PlayPositions[k][1], PlayPositions[k][2], v)
    \/ Restart
    \/ HasWon
    \/ GetConflicts

NextTwo ==
    \/ \E board \in 1 .. 2, v \in InputValues :
          SetCellValueOn(board, PlayPositions[1][1], PlayPositions[1][2], v)
    \/ \E board \in 1 .. 2 : RestartOn(board)

NextConstruct == Construct

\* a Board and the calls setCellValue and restart
Spec == Init /\ [][Next]_vars

\* the same, with a caller that writes into the cells the accessors return
SpecCaller == InitCaller /\ [][NextCaller]_vars

\* a Board, the calls that change it and the calls that query it, with
\* numbers and a string as values
SpecQuery == InitQuery /\ [][NextQuery]_vars

\* two Boards and the calls setCellValue and restart on either
SpecTwo == InitTwo /\ [][NextTwo]_vars

\* the constructor on every input
SpecConstruct == InitConstruct /\ [][NextConstruct]_vars

(***************************************************************************)
(* The traversals on their own: a Board of the first game, and each of the *)
(* three traversals run with the recording callback, for every invocation  *)
(* on which the callback can return false.                                 *)
(***************************************************************************)
WalkFuns == {"walkCellsByRow", "walkCellsByColumn", "walkCellsByBox"}

StopAts == 0 .. 81

InitWalk ==
    /\ boardDef = stringOf(sudokuBoards1)
    /\ status = "ok"
    /\ cells = init(boardDef).cells
    /\ call = NoArgs("new")
    /\ prevOp = "none"
    /\ ret = "undefined"
    /\ writes = 0
    /\ boards = << >>
    /\ runner = NoRunner
    /\ visited = << >>

Walk(walkFun, stopAt) ==
    /\ status = "ok"
    /\ \E run \in { walkCells(walkFun, "record",
                              [cells |-> cells, visited |-> << >>,
                               stopAt |-> stopAt, ret |-> "undefined"]) } :
          /\ cells' = run.cells
          /\ visited' = run.visited
    /\ call' = [op |-> walkFun, row |-> 0, col |-> 0, value |-> stopAt]
    /\ prevOp' = call.op
    /\ ret' = "undefined"
    /\ UNCHANGED <<boardDef, status, writes, boards, runner>>

NextWalk == \E walkFun \in WalkFuns, stopAt \in StopAts : Walk(walkFun, stopAt)

\* a Board and the three traversals with a recording callback
SpecWalk == InitWalk /\ [][NextWalk]_vars

(***************************************************************************)
(* SudokuRunner and its CanvasRunner.  The runner's state is activeCell    *)
(* (null or a copy of a Cell, of which only row and column are ever read:  *)
(* the empty tuple or <<row, column>>), hasWon, conflicts (the array       *)
(* getConflicts returned, as indices into cells) and what is drawn on the  *)
(* canvas.  A Cell-or-null result is a sequence of length 1 or 0.          *)
(***************************************************************************)
\* defaultSettings
cellSize == 30

outerBorderWidth == 2

cellBorderWidth == 1

boxBorderWidth == 2

\* where the page has put the canvas: $canvas.offset()
canvasOffset == [left |-> 8, top |-> 8]

\* drawCellBorders: the offset at which the n-th column (row) of cells
\* starts; after each column but the last it grows by cellSize and by the
\* two halves of the width of the line drawn there
RECURSIVE cellOffset(_)
cellOffset(n) ==
    IF n = 1
    THEN outerBorderWidth
    ELSE cellOffset(n - 1) + cellSize
         + (IF (n - 1) % 3 = 0 THEN boxBorderWidth ELSE cellBorderWidth)

\* the map drawCellBorders fills with setCellPixelCoords, the same at every
\* draw
cellPixelPositions ==
    [row \in 1 .. 9, col \in 1 .. 9 |->
        [boardX |-> cellOffset(col), boardY |-> cellOffset(row)]]

getCellPixelCoords(cell) == cellPixelPositions[cell.row, cell.column]

calcCanvasCoordsFromPageCoords(pageX, pageY) ==
    [boardX |-> pageX - canvasOffset.left, boardY |-> pageY - canvasOffset.top]

\* the first cell, row by row, whose square holds the point; both edges of
\* a square belong to it.  The cell tested at (row, col) is the copy
\* board.getCell(row, col), which has that row and column.
getCellAtBoardCoords(cs, boardX, boardY) ==
    LET hits ==
            { i \in 0 .. 80 :
                LET cellPosition ==
                        getCellPixelCoords([row |-> (i \div 9) + 1,
                                            column |-> (i % 9) + 1])
                    rowStart == cellPosition.boardY
                    rowEnd == rowStart + cellSize
                    colStart == cellPosition.boardX
                    colEnd == colStart + cellSize
                IN  /\ rowStart <= boardY /\ boardY <= rowEnd
                    /\ colStart <= boardX /\ boardX <= colEnd }
    IN  IF hits = {}
        THEN << >>
        ELSE LET first == CHOOSE i \in hits : \A j \in hits : i <= j
             IN  << getCell(cs, (first \div 9) + 1, (first % 9) + 1).cell >>

isCellInConflict(cs, rn, cell) ==
    \E i \in 1 .. Len(rn.conflicts) :
        /\ cs[rn.conflicts[i]].row = cell.row
        /\ cs[rn.conflicts[i]].column = cell.column

getAdjacentCell(cs, cell, direction) ==
    CASE direction = 0 /\ cell.column > 1 ->
             << getCell(cs, cell.row, cell.column - 1).cell >>
      [] direction = 1 /\ cell.row > 1 ->
             << getCell(cs, cell.row - 1, cell.column).cell >>
      [] direction = 2 /\ cell.column < 9 ->
             << getCell(cs, cell.row, cell.column + 1).cell >>
      [] direction = 3 /\ cell.row < 9 ->
             << getCell(cs, cell.row + 1, cell.column).cell >>
      [] OTHER -> << >>

\* variant: the search looks at the adjacent cell only and gives up when
\* it is fixed
findAdjacentNonFixedGivesUp(cs, cell, direction) ==
    LET newActiveCell == getAdjacentCell(cs, cell, direction)
    IN  IF newActiveCell # << >> /\ newActiveCell[1].isFixed
        THEN << >>
        ELSE newActiveCell

\* handleKeydown: do newActiveCell = getAdjacentCell(newActiveCell,
\* direction) while (newActiveCell && newActiveCell.isFixed)
RECURSIVE findAdjacentNonFixed(_, _, _)
findAdjacentNonFixed(cs, cell, direction) ==
    LET newActiveCell == getAdjacentCell(cs, cell, direction)
    IN  IF newActiveCell # << >> /\ newActiveCell[1].isFixed
        THEN findAdjacentNonFixed(cs, newActiveCell[1], direction)
        ELSE newActiveCell

\* what drawBoardPrivate leaves on the canvas: the squares filled (all of
\* them in the win colour, or the active one in the active colour) and the
\* cells whose number is written in the conflict colour.  The draw
\* functions read the board through board.getCell only.
drawBoardPrivate(cs, rn) ==
    [won |-> rn.hasWon,
     active |-> IF rn.hasWon THEN << >> ELSE rn.activeCell,
     conflict |-> { i \in 0 .. 80 :
                      /\ cs[i].value # 0
                      /\ isCellInConflict(cs, rn, fromCell(cs[i])) }]

drawn(cs, rn) == [rn EXCEPT !.canvas = drawBoardPrivate(cs, rn)]

\* the result has the Board's cells, the runner's state and the arguments
\* of the board.setCellValue call made, if one was made
handleNumberInput(cs, rn, number) ==
    IF rn.activeCell = << >>
    THEN [cells |-> cs, runner |-> rn, set |-> << >>]
    ELSE LET done == setCellValue(cs, rn.activeCell[1], rn.activeCell[2],
                                  number)
         IN  [cells |-> done.cells,
              runner |-> IF hasWon(done.cells)
                         THEN [rn EXCEPT !.activeCell = << >>,
                                         !.hasWon = TRUE]
                         ELSE [rn EXCEPT
                                 !.conflicts = conflictIndices(done.cells)],
              set |-> << [row |-> rn.activeCell[1],
                          col |-> rn.activeCell[2], value |-> number] >>]

\* variant: a click makes any cell active, fixed or not
handleClickAnyCell(cs, rn, pageX, pageY) ==
    IF rn.hasWon
    THEN rn
    ELSE LET boardPosition == calcCanvasCoordsFromPageCoords(pageX, pageY)
             clickedCell == getCellAtBoardCoords(cs, boardPosition.boardX,
                                                 boardPosition.boardY)
         IN  IF clickedCell # << >>
             THEN drawn(cs, [rn EXCEPT !.activeCell =
                               << clickedCell[1].row, clickedCell[1].column >>])
             ELSE IF rn.activeCell # << >>
             THEN drawn(cs, [rn EXCEPT !.activeCell = << >>])
             ELSE rn

handleClick(cs, rn, pageX, pageY) ==
    IF rn.hasWon
    THEN rn
    ELSE LET boardPosition == calcCanvasCoordsFromPageCoords(pageX, pageY)
             clickedCell == getCellAtBoardCoords(cs, boardPosition.boardX,
                                                 boardPosition.boardY)
         IN  IF clickedCell # << >> /\ ~clickedCell[1].isFixed
             THEN drawn(cs, [rn EXCEPT !.activeCell =
                               << clickedCell[1].row, clickedCell[1].column >>])
             ELSE IF clickedCell = << >> /\ rn.activeCell # << >>
             THEN drawn(cs, [rn EXCEPT !.activeCell = << >>])
             ELSE rn

\* variant: the arrow keys are taken for numbers too
keyNumberWithArrows(key) ==
    IF key >= 48 /\ key <= 58 THEN << key - 48 >>
    ELSE IF key >= 96 /\ key <= 106 THEN << key - 96 >>
    ELSE IF key = 8 THEN << 0 >>
    ELSE IF key = 32 THEN << 0 >>
    ELSE IF key >= 37 /\ key <= 40 THEN << key - 37 >>
    ELSE << >>

\* handleKeydown: number, null being the empty tuple
keyNumber(key) ==
    IF key >= 48 /\ key <= 58 THEN << key - 48 >>
    ELSE IF key >= 96 /\ key <= 106 THEN << key - 96 >>
    ELSE IF key = 8 THEN << 0 >>
    ELSE IF key = 32 THEN << 0 >>
    ELSE << >>

\* handleKeydown: direction, null being the empty tuple; it is set only
\* when none of the number branches was taken
keyDirection(key) ==
    IF keyNumber(key) = << >> /\ key >= 37 /\ key <= 40
    THEN << key - 37 >>
    ELSE << >>

handleKeydown(cs, rn, key) ==
    LET number == keyNumber(key)
        direction == keyDirection(key)
    IN  IF number # << >> /\ rn.activeCell # << >>
        THEN CHOOSE result \in
                 { [cells |-> input.cells,
                    runner |-> drawn(input.cells, input.runner),
                    set |-> input.set]
                   : input \in { handleNumberInput(cs, rn, number[1]) } }
                 : TRUE
        ELSE IF direction # << >> /\ rn.activeCell # << >>
        THEN LET active == [row |-> rn.activeCell[1],
                            column |-> rn.activeCell[2]]
                 newActiveCell ==
                     findAdjacentNonFixed(cs, active, direction[1])
             IN  [cells |-> cs,
                  runner |-> IF newActiveCell # << >>
                             THEN drawn(cs, [rn EXCEPT !.activeCell =
                                               << newActiveCell[1].row,
                                                  newActiveCell[1].column >>])
                             ELSE rn,
                  set |-> << >>]
        ELSE [cells |-> cs, runner |-> rn, set |-> << >>]

\* the game of sudokuBoards[0] played to its end
sudokuBoards1Solution ==
    << 8, 4, 7, 6, 9, 1, 3, 5, 2,
       2, 5, 3, 7, 4, 8, 6, 9, 1,
       9, 6, 1, 5, 2, 3, 7, 4, 8,
       3, 1, 2, 9, 5, 7, 4, 8, 6,
       5, 9, 4, 1, 8, 6, 2, 3, 7,
       6, 7, 8, 4, 3, 2, 5, 1, 9,
       7, 8, 5, 3, 6, 9, 1, 2, 4,
       4, 2, 6, 8, 1, 5, 9, 7, 3,
       1, 3, 9, 2, 7, 4, 8, 6, 5 >>

\* the cells the player types numbers into
TypedCells == { PlayPositions[n] : n \in 1 .. NumTyped }

\* the Board of sudokuBoards[0] late in the game: the player has entered the
\* number of the solution into every empty cell but the typed ones
lateGame ==
    LET fresh == init(stringOf(sudokuBoards1)).cells
    IN  [i \in 0 .. 80 |->
            IF fresh[i].isFixed
               \/ << fresh[i].row, fresh[i].column >> \in TypedCells
            THEN fresh[i]
            ELSE [fresh[i] EXCEPT !.value = sudokuBoards1Solution[i + 1]]]

\* evt.which of the keydown events: the ends of each range handleKeydown
\* tests and their neighbours, the numbers of the solution at the typed
\* cells, backspace, space and enter
KeyCodes ==
    { 8, 13, 32, 36, 37, 38, 39, 40, 41, 47, 48, 52, 56, 58, 59,
      95, 96, 100, 104, 106, 107 }

\* board coordinates of the clicks: the outer border, the last pixel of
\* cell 1, the middle of cells 2 and 5, and the pixel between cells 3 and 4
BoardCoords == { 1, 32, 48, 95, 142 }

ClickCoords ==
    { [pageX |-> x + canvasOffset.left, pageY |-> y + canvasOffset.top]
      : x \in BoardCoords, y \in BoardCoords }

\* after runInCanvas: a Board of sudokuBoards[0], fresh or late in the game
\* with no cell active, and the board drawn
InitRunner ==
    /\ boardDef = stringOf(sudokuBoards1)
    /\ status = "ok"
    /\ cells \in { init(boardDef).cells, lateGame }
    /\ call = NoArgs("runInCanvas")
    /\ prevOp = "none"
    /\ ret = "undefined"
    /\ writes = 0
    /\ boards = << >>
    /\ runner = drawn(cells, NoRunner)
    /\ visited = << >>

HandleClick(evt) ==
    /\ status = "ok"
    /\ runner' = handleClick(cells, runner, evt.pageX, evt.pageY)
    /\ call' = NoArgs("handleClick")
    /\ UNCHANGED <<boardDef, status, cells, prevOp, ret, writes, boards,
                   visited>>

\* a keydown event; the player types numbers only while one of the typed
\* cells is active
HandleKeydown(key) ==
    /\ status = "ok"
    /\ (keyNumber(key) # << >> /\ runner.activeCell # << >>)
           => runner.activeCell \in TypedCells
    /\ \E handled \in { handleKeydown(cells, runner, key) } :
          /\ cells' = handled.cells
          /\ runner' = handled.runner
          /\ call' = IF handled.set = << >>
                     THEN NoArgs("handleKeydown")
                     ELSE [op |-> "handleKeydown",
                           row |-> handled.set[1].row,
                           col |-> handled.set[1].col,
                           value |-> handled.set[1].value]
    /\ UNCHANGED <<boardDef, status, prevOp, ret, writes, boards, visited>>

\* SudokuRunner.restart
RunnerRestart ==
    /\ status = "ok"
    /\ \E restarted \in { restart(cells) } :
          /\ cells' = restarted
          /\ runner' = drawn(restarted, runner)
    /\ call' = NoArgs("SudokuRunner.restart")
    /\ UNCHANGED <<boardDef, status, prevOp, ret, writes, boards, visited>>

NextRunner ==
    \/ \E evt \in ClickCoords : HandleClick(evt)
    \/ \E key \in KeyCodes : HandleKeydown(key)
    \/ RunnerRestart

\* a SudokuRunner in a canvas, with clicks, keys and restarts
SpecRunner == InitRunner /\ [][NextRunner]_vars

(***************************************************************************)
(* What the claims speak of.                                               *)
(***************************************************************************)
\* the board just after construction from boardDef
Fresh == init(boardDef).cells

\* the index of the cell the last call addressed
calledIdx == calcCellIndexFromBoardPosition(call.row, call.col)

\* the 9 rows, the 9 columns and the 9 boxes, as sets of cell indices
RowGroup(r) == { (r - 1) * 9 + (c - 1) : c \in 1 .. 9 }

ColumnGroup(c) == { (r - 1) * 9 + (c - 1) : r \in 1 .. 9 }

BoxGroup(b) ==
    { (r - 1) * 9 + (c - 1) :
        r \in (3 * ((b - 1) \div 3) + 1) .. (3 * ((b - 1) \div 3) + 3),
        c \in (3 * ((b - 1) % 3) + 1) .. (3 * ((b - 1) % 3) + 3) }

Groups ==
    { RowGroup(k) : k \in 1 .. 9 } \cup { ColumnGroup(k) : k \in 1 .. 9 }
    \cup { BoxGroup(k) : k \in 1 .. 9 }

PairwiseDistinct(cs, g) ==
    \A i \in g, j \in g : i # j => cs[i].value # cs[j].value

Solved(cs) ==
    /\ \A i \in 0 .. 80 : cs[i].value # 0
    /\ \A g \in Groups : PairwiseDistinct(cs, g)

\* what getCell shows of the board, position by position
observe(cs) ==
    [i \in 0 .. 80 |->
        getCell(cs, calcBoardPositionFromIndex(i).row,
                calcBoardPositionFromIndex(i).column).cell]

\* the characters are 81 decimal digits
IsDigitString(def) ==
    /\ def.isString
    /\ Len(def.chars) = 81
    /\ \A n \in 1 .. 81 : \E d \in 1 .. 10 : DigitChars[d] = def.chars[n]

\* the digit at index i (from 0) of a digit string
digitAt(def, i) == CHOOSE d \in 0 .. 9 : DigitChars[d + 1] = def.chars[i + 1]

(***************************************************************************)
(* The claims.                                                             *)
(***************************************************************************)

\* C1: on a board whose values are all in 0..9, hasWon() is true if and only
\* if every cell is nonzero and every row, column and box holds 9 pairwise
\* distinct values.  The code contradicts it: hasWon runs the column and box
\* checks only when the row check has failed.
C1_HasWonIffSolved ==
    (status = "ok" /\ \A i \in 0 .. 80 : cells[i].value \in 0 .. 9)
        => (hasWon(cells) <=> Solved(cells))

\* C2: a cell fixed at construction keeps its construction-time value in
\* every state reached by setCellValue and restart calls.
C2_FixedCellsKeepValue ==
    status = "ok" =>
        LET fresh == Fresh
        IN  \A i \in 0 .. 80 :
                fresh[i].isFixed => cells[i].value = fresh[i].value

\* C2 witness: setCellValue was called on a fixed cell with another value
C2_Witness ==
    /\ call.op = "setCellValue"
    /\ call.value \in 1 .. 9
    /\ LET given == Fresh[calledIdx]
       IN  given.isFixed /\ call.value # given.value

\* C3: every cell's value lies in 0..9 in every reachable state, whatever
\* values setCellValue is given.  The code contradicts it: setCellValue
\* stores the value it is given without a range check.
C3_ValuesInRange ==
    status = "ok" => \A i \in 0 .. 80 : cells[i].value \in 0 .. 9

\* C4: a caller's write to the value or isFixed field of a cell that
\* getConflicts returned changes nothing that getCell observes of the board
\* (the returned cells do not alias the Board's storage).  The code
\* contradicts it: getConflicts returns the Board's own Cell objects.
C4_ConflictCellsAreCopies ==
    [][call'.op = "writeGetConflicts" => observe(cells') = observe(cells)]_vars

\* C5: a caller's write to a field of the cell getCell returned, or of an
\* element of the array getBoard returned, changes nothing that getCell
\* observes of the board, and getBoard returns exactly 81 cells in row-major
\* index order.  The code contradicts it where the deep $.extend copies a
\* Cell by reference.
C5_GetCellGetBoardCopies ==
    [][/\ call'.op \in {"writeGetCell", "writeGetBoard"}
            => observe(cells') = observe(cells)
       /\ \A board \in getBoard(cells') :
            /\ DOMAIN board = 0 .. 80
            /\ \A i \in 0 .. 80 :
                  /\ board[i].cell.row = (i \div 9) + 1
                  /\ board[i].cell.column = (i % 9) + 1
                  /\ board[i].cell.value = cells'[i].value
                  /\ board[i].cell.isFixed = cells'[i].isFixed]_vars

\* C6: setCellValue addressed to a fixed cell returns false, raises nothing
\* and leaves the whole board unchanged, for every attempted value.
C6_FixedCellRejectsWrite ==
    [][(call'.op = "setCellValue"
          /\ cells[calcCellIndexFromBoardPosition(call'.row, call'.col)].isFixed)
        => (ret' = "false" /\ cells' = cells /\ status' = "ok")]_vars

\* C6 witness: setCellValue with value 0 on a fixed cell has returned false
C6_Witness ==
    /\ call.op = "setCellValue"
    /\ cells[calledIdx].isFixed
    /\ call.value = 0
    /\ ret = "false"

\* C7: setCellValue(row, col, v) addressed to a non-fixed cell returns true
\* and the next getCell(row, col) and getBoard show value v for that cell.
C7_NonFixedWriteObserved ==
    (call.op = "setCellValue" /\ ~cells[calledIdx].isFixed)
        => /\ ret = "true"
           /\ getCell(cells, call.row, call.col).cell.value = call.value
           /\ \A board \in getBoard(cells) :
                 board[calledIdx].cell.value = call.value

\* C7 witness: a non-fixed cell has been set to 0 while a non-fixed cell holds
\* a nonzero value
C7_Witness ==
    /\ call.op = "setCellValue"
    /\ prevOp = "setCellValue"
    /\ ~cells[calledIdx].isFixed
    /\ call.value = 0
    /\ ret = "true"
    /\ \E i \in 0 .. 80 : ~cells[i].isFixed /\ cells[i].value # 0

\* C8: after restart(), whatever calls preceded it, the board is cell for
\* cell the board just after construction: every non-fixed cell is 0 and
\* every fixed cell has its given value.
C8_RestartGivesFresh ==
    call.op = "restart" =>
        /\ cells = Fresh
        /\ \A i \in 0 .. 80 : ~cells[i].isFixed => cells[i].value = 0

\* C8 witness: restart has run right after a setCellValue
C8_Witness ==
    /\ call.op = "restart"
    /\ prevOp = "setCellValue"
    /\ \E i \in 0 .. 80 : ~cells[i].isFixed
    /\ \E i \in 0 .. 80 : cells[i].isFixed

\* C9: restart() is idempotent: a restart() that follows a restart() leaves
\* the board as the first one left it.
C9_RestartIdempotent ==
    [][(call.op = "restart" /\ call'.op = "restart") => cells' = cells]_vars

\* C9 witness: two restart() calls in a row
C9_Witness ==
    /\ call.op = "restart"
    /\ prevOp = "restart"
    /\ \E i \in 0 .. 80 : ~cells[i].isFixed

\* C10: for every string of 81 decimal digits construction succeeds and the
\* cell at index i has row floor(i/9)+1, column (i mod 9)+1, the digit at
\* position i as its value, and isFixed exactly when that digit is not 0.
C10_ConstructionMapsDigits ==
    (status # "pending" /\ IsDigitString(boardDef))
        => /\ status = "ok"
           /\ DOMAIN cells = 0 .. 80
           /\ \A i \in 0 .. 80 :
                 /\ cells[i].row = (i \div 9) + 1
                 /\ cells[i].column = (i % 9) + 1
                 /\ cells[i].value = digitAt(boardDef, i)
                 /\ cells[i].isFixed = (digitAt(boardDef, i) # 0)

\* C10 witness: a board constructed from a digit string that has both a 0
\* and a nonzero digit at the varied positions
C10_Witness ==
    /\ status = "ok"
    /\ IsDigitString(boardDef)
    /\ cells[0].value = 0 /\ ~cells[0].isFixed
    /\ cells[80].value = 9 /\ cells[80].isFixed

\* C11: construction fails, and no Board exists, with cause 'not a string'
\* when the definition is no string, 'wrong length' when it is a string of a
\* length other than 81, and 'invalid cell value' when it is a string of 81
\* characters one of which is no decimal digit; it succeeds only for a
\* string of 81 decimal digits.
C11_ConstructionFailures ==
    status # "pending" =>
        /\ (status = "ok") <=> IsDigitString(boardDef)
        /\ status # "ok" => cells = << >>
        /\ ~boardDef.isString => status = "not a string"
        /\ (boardDef.isString /\ Len(boardDef.chars) # 81)
              => status = "wrong length"
        /\ (boardDef.isString /\ Len(boardDef.chars) = 81
              /\ ~IsDigitString(boardDef)) => status = "invalid cell value"

\* C11 witness: the constructor has rejected a string of 80 decimal digits
C11_Witness ==
    /\ call.op = "new"
    /\ status = "wrong length"
    /\ boardDef.isString
    /\ Len(boardDef.chars) = 80
    /\ \A n \in 1 .. 80 : \E d \in 1 .. 10 : DigitChars[d] = boardDef.chars[n]
    /\ cells = << >>

\* the cells with a nonzero value that another cell of their row, column or
\* box holds too
ConflictingCells(cs) ==
    { i \in 0 .. 80 :
        /\ cs[i].value # 0
        /\ \E g \in Groups : \E j \in g :
              i \in g /\ j # i /\ cs[j].value = cs[i].value }

\* some group holds a nonzero value twice
SomeDuplicate(cs) ==
    \E g \in Groups : \E i \in g, j \in g :
        i # j /\ cs[i].value # 0 /\ cs[i].value = cs[j].value

\* C12: getConflicts() returns exactly the cells with a nonzero value that
\* another cell of their row, column or box holds too; no cell with value 0
\* is returned, and the result is empty exactly when no group holds a
\* nonzero value twice.
C12_ConflictsAreTheDuplicates ==
    status = "ok" =>
        LET found == getConflicts(cells)
        IN  /\ { found[k].idx : k \in 1 .. Len(found) } = ConflictingCells(cells)
            /\ \A k \in 1 .. Len(found) :
                  /\ found[k].cell = cells[found[k].idx]
                  /\ found[k].cell.value # 0
            /\ (found = << >>) <=> ~SomeDuplicate(cells)

\* C12 witness: getConflicts returns a fixed and a non-fixed cell, and cells
\* of more than one row, on a board that has empty cells
C12_Witness ==
    /\ call.op = "setCellValue"
    /\ \E i \in 0 .. 80 : cells[i].value = 0
    /\ LET found == getConflicts(cells)
       IN  /\ Len(found) >= 3
           /\ \E k \in 1 .. Len(found) : found[k].cell.isFixed
           /\ \E k \in 1 .. Len(found) : ~found[k].cell.isFixed
           /\ \E j \in 1 .. Len(found), k \in 1 .. Len(found) :
                 found[j].cell.row # found[k].cell.row

\* C13: the list getConflicts() returns holds each position (row, column) at
\* most once, also when a cell is flagged by two or three kinds of group.
C13_ConflictsHaveNoRepeats ==
    status = "ok" =>
        LET found == getConflicts(cells)
        IN  \A j \in 1 .. Len(found), k \in 1 .. Len(found) :
                j # k => << found[j].cell.row, found[j].cell.column >>
                           # << found[k].cell.row, found[k].cell.column >>

\* C13 witness: a cell was flagged by its row, its column and its box, and
\* getConflicts returns it once
C13_Witness ==
    /\ call.op = "setCellValue"
    /\ LET flagged == allConflicts(cells)
           found == getConflicts(cells)
       IN  \E i \in 0 .. 80 :
              /\ Cardinality({ n \in 1 .. Len(flagged) : flagged[n] = i }) = 3
              /\ Cardinality({ k \in 1 .. Len(found) : found[k].idx = i }) = 1

\* C14: the list getConflicts() returns is in ascending order of row and,
\* within a row, in ascending order of column.
C14_ConflictsAreSorted ==
    status = "ok" =>
        LET found == getConflicts(cells)
        IN  \A j \in 1 .. Len(found), k \in 1 .. Len(found) :
                j < k =>
                    \/ found[j].cell.row < found[k].cell.row
                    \/ /\ found[j].cell.row = found[k].cell.row
                       /\ found[j].cell.column < found[k].cell.column

\* C14 witness: two conflicting cells of one row and one of another row are
\* returned, and the cells were not collected in that order
C14_Witness ==
    /\ call.op = "setCellValue"
    /\ LET found == getConflicts(cells)
       IN  /\ \E j \in 1 .. Len(found), k \in 1 .. Len(found) :
                 /\ j < k
                 /\ found[j].cell.row = found[k].cell.row
           /\ \E j \in 1 .. Len(found), k \in 1 .. Len(found) :
                 found[j].cell.row # found[k].cell.row
           /\ unique(allConflicts(cells)) # conflictIndices(cells)

\* a board with the values of cs and none of its history: no cell is fixed
valuesOnly(cs) ==
    [i \in 0 .. 80 |->
        Cell(calcBoardPositionFromIndex(i).row,
             calcBoardPositionFromIndex(i).column, cs[i].value, FALSE)]

\* C15: hasWon() and getConflicts() leave every cell as it was, and what
\* they return depends on the current values only: a board with the same
\* values and another history gives the same result.
C15_QueriesArePure ==
    [][/\ call'.op = "hasWon"
            => /\ cells' = cells
               /\ ret' = toRet(hasWon(valuesOnly(cells)))
       /\ call'.op = "getConflicts"
            => /\ cells' = cells
               /\ ret' = "array"
                    => conflictIndices(cells)
                         = conflictIndices(valuesOnly(cells))]_vars

\* C15 witness: getConflicts has returned on a board with a conflict, right
\* after a hasWon
C15_Witness ==
    /\ call.op = "getConflicts"
    /\ prevOp = "hasWon"
    /\ ret = "array"
    /\ SomeDuplicate(cells)

\* C18: after a successful construction no call of getCell, setCellValue,
\* restart, hasWon or getConflicts raises an error, whatever value
\* setCellValue was given.  The code contradicts it: after
\* setCellValue(row, col, "toString") getConflicts throws a TypeError.
C18_NoOperationRaises ==
    status = "ok" => ret # "TypeError"

\* C16: when hasWon() returns true and setCellValue then writes, to a
\* non-fixed cell, 0 or a value that another cell of its row holds, the next
\* hasWon() returns false.
C16_WonBoardSpoiled ==
    [][(/\ call'.op = "setCellValue"
        /\ ~cells[calcCellIndexFromBoardPosition(call'.row, call'.col)].isFixed
        /\ \/ call'.value = 0
           \/ \E c \in 1 .. 9 :
                 /\ c # call'.col
                 /\ cells[calcCellIndexFromBoardPosition(call'.row, c)].value
                      = call'.value
        /\ hasWon(cells))
       => ~hasWon(cells')]_vars

\* C16 witness: a non-fixed cell has been given a value that another cell
\* of its row holds, on a board that hasWon accepts with another value in
\* that cell
C16_Witness ==
    /\ call.op = "setCellValue"
    /\ prevOp = "setCellValue"
    /\ ret = "true"
    /\ call.value # 0
    /\ \E c \in 1 .. 9 :
          /\ c # call.col
          /\ cells[calcCellIndexFromBoardPosition(call.row, c)].value
               = call.value
    /\ ~hasWon(cells)
    /\ \E v \in 1 .. 9 : hasWon([cells EXCEPT ![calledIdx].value = v])

\* C17: a Board constructed from 81 digits in which every row, column and
\* box is a permutation of 1..9 has hasWon() true right after construction
\* and after every sequence of setCellValue and restart calls.
C17_SolutionHasWon ==
    status = "ok" =>
        LET fresh == Fresh
        IN  Solved(fresh) => hasWon(cells)

\* C17 witness: a board constructed from a solution, after a setCellValue
\* and a restart
C17_Witness ==
    /\ status = "ok"
    /\ call.op = "restart"
    /\ prevOp = "setCellValue"
    /\ \A i \in 0 .. 80 : cells[i].isFixed
    /\ Solved(Fresh)
    /\ hasWon(cells)

\* C19: in every reachable state the Board has exactly 81 cells, the cell at
\* index (row-1)*9+(column-1) stores that row and column, getCell(r, c)
\* returns a cell with row r and column c, and each cell's isFixed is the
\* flag it got at construction.
C19_StructureIsConstant ==
    status = "ok" =>
        LET fresh == Fresh
        IN  /\ DOMAIN cells = 0 .. 80
            /\ \A r \in 1 .. 9, c \in 1 .. 9 :
                  /\ cells[(r - 1) * 9 + (c - 1)].row = r
                  /\ cells[(r - 1) * 9 + (c - 1)].column = c
                  /\ getCell(cells, r, c).cell.row = r
                  /\ getCell(cells, r, c).cell.column = c
            /\ \A i \in 0 .. 80 : cells[i].isFixed = fresh[i].isFixed

\* C19 witness: a non-fixed cell has been written after a restart
C19_Witness ==
    /\ call.op = "setCellValue"
    /\ prevOp = "restart"
    /\ ret = "true"
    /\ call.value # 0
    /\ cells[calledIdx].value = call.value
    /\ ~cells[calledIdx].isFixed

\* C20: two Boards, also two built from the same definition string, share
\* no cell storage: a setCellValue or restart on one leaves the cells of the
\* other, and what getCell and hasWon observe of it, unchanged.
C20_BoardsShareNothing ==
    [][\A board \in 1 .. 2 :
          call'.board = board =>
              LET before == boards[cellsOf(3 - board)]
                  after == boards'[cellsOf(3 - board)]
              IN  /\ after = before
                  /\ observe(after) = observe(before)
                  /\ hasWon(after) = hasWon(before)]_vars

\* C20 witness: of two Boards built from the same string, the first has
\* been written and the second has not
C20_Witness ==
    /\ boards # << >>
    /\ boardDef[1] = boardDef[2]
    /\ call.op = "setCellValue"
    /\ call.board = 1
    /\ ret = "true"
    /\ call.value # 0
    /\ boards[cellsOf(1)][calledIdx].value = call.value
    /\ boards[cellsOf(2)] = init(boardDef[2]).cells

(***************************************************************************)
(* The order of the traversals.                                            *)
(***************************************************************************)
\* the invocations the callback of the last traversal saw, had it never
\* returned false
fullWalk ==
    walkCells(call.op, "record",
              [cells |-> cells, visited |-> << >>, stopAt |-> 0,
               ret |-> "undefined"]).visited

\* C22: a traversal whose callback never returns false invokes it 81 times,
\* once on every cell, in 9 runs of 9 cells with the group keys 1, 2, ..., 9
\* in that order, with the new-group flag true on the first cell of each run
\* and on no other; the cells of a row come in column order and the cells of
\* a column in row order.
C22_TraversalVisitsAllInGroups ==
    (call.op \in WalkFuns /\ call.value = 0) =>
        /\ Len(visited) = 81
        /\ \A r \in 1 .. 9, c \in 1 .. 9 :
               Cardinality({ n \in 1 .. 81 : /\ visited[n].row = r
                                             /\ visited[n].column = c }) = 1
        /\ \A n \in 1 .. 81 :
               /\ visited[n].x = ((n - 1) \div 9) + 1
               /\ visited[n].newX = ((n - 1) % 9 = 0)
               /\ call.op = "walkCellsByRow" =>
                      /\ visited[n].row = visited[n].x
                      /\ visited[n].column = ((n - 1) % 9) + 1
               /\ call.op = "walkCellsByColumn" =>
                      /\ visited[n].column = visited[n].x
                      /\ visited[n].row = ((n - 1) % 9) + 1

C22_Witness ==
    /\ call.op = "walkCellsByColumn"
    /\ call.value = 0
    /\ Len(visited) = 81
    /\ visited[10].row = 1
    /\ visited[10].column = 2
    /\ visited[10].newX

\* C23: in the box traversal the 9 cells delivered with group key b are the
\* cells of rows 3*floor((b-1)/3)+1 .. +3 and columns 3*((b-1) mod 3)+1 .. +3
\* in row-major order, so that the cell (r, c) is delivered with the key
\* 3*floor((r-1)/3) + floor((c-1)/3) + 1.
C23_BoxTraversalOrder ==
    (call.op = "walkCellsByBox" /\ call.value = 0) =>
        /\ Len(visited) = 81
        /\ \A n \in 1 .. 81 :
               LET b == ((n - 1) \div 9) + 1
                   k == (n - 1) % 9
               IN  /\ visited[n].x = b
                   /\ visited[n].row = 3 * ((b - 1) \div 3) + 1 + (k \div 3)
                   /\ visited[n].column = 3 * ((b - 1) % 3) + 1 + (k % 3)
                   /\ visited[n].x = 3 * ((visited[n].row - 1) \div 3)
                                     + ((visited[n].column - 1) \div 3) + 1

C23_Witness ==
    /\ call.op = "walkCellsByBox"
    /\ call.value = 0
    /\ Len(visited) = 81
    /\ visited[13].x = 2
    /\ visited[13].row = 2
    /\ visited[13].column = 4

\* C24: when the callback returns false on a cell the traversal stops: the
\* callback is invoked on no further cell, and the cells visited are the
\* prefix of the full traversal order up to that cell.
C24_FalseStopsTraversal ==
    (call.op \in WalkFuns /\ call.value > 0) =>
        /\ Len(visited) = call.value
        /\ visited = SubSeq(fullWalk, 1, call.value)

C24_Witness ==
    /\ call.op = "walkCellsByBox"
    /\ call.value = 40
    /\ Len(visited) = 40
    /\ visited[40].row = 5
    /\ visited[40].column = 4

(***************************************************************************)
(* hasWon against getConflicts, and the footprint of setCellValue.         *)
(***************************************************************************)
\* the values a group of cells holds
groupValues(cs, g) == { cs[i].value : i \in g }

\* C25: in every state reached by setCellValue calls with arbitrary values,
\* hasWon() true implies that every row, every column and every box holds
\* exactly the values 1..9, so a board reported as won has no value outside
\* 1..9.  The code contradicts it: hasWon compares the values of a row with
\* each other and with 0 only, and skips the columns and boxes when the rows
\* pass.
C25_WonImpliesAllGroupsComplete ==
    (status = "ok" /\ hasWon(cells)) =>
        \A g \in Groups : groupValues(cells, g) = 1 .. 9

\* C26: in every reachable state, hasWon() true implies that getConflicts()
\* returns an empty list.  The code contradicts it: two values of a row
\* exchanged leave every row complete, so hasWon is true, while getConflicts
\* returns the cells that now repeat in their columns.
C26_WonImpliesNoConflicts ==
    (status = "ok" /\ hasWon(cells)) => getConflicts(cells) = << >>

\* C27: on a board with values in 0..9, if every cell is nonzero and
\* getConflicts() returns an empty list then hasWon() returns true.
C27_FullWithoutConflictsIsWon ==
    ( /\ status = "ok"
      /\ \A i \in 0 .. 80 : cells[i].value \in 1 .. 9
      /\ getConflicts(cells) = << >> )
        => hasWon(cells)

\* C27 witness: the last empty cell was filled by setCellValue with a value
\* that conflicts with nothing, and hasWon is true
C27_Witness ==
    /\ call.op = "setCellValue"
    /\ ret = "true"
    /\ call.value # 0
    /\ \E i \in 0 .. 80 : ~cells[i].isFixed
    /\ \A i \in 0 .. 80 : cells[i].value \in 1 .. 9
    /\ getConflicts(cells) = << >>
    /\ hasWon(cells)

\* C28: setCellValue(row, col, v) changes at most the value of the cell at
\* (row, col): the values of the other 80 cells, and the isFixed flag, row
\* and column of all 81 cells, are the same before and after the call.
C28_SetCellValueTouchesOneCell ==
    [][ call'.op = "setCellValue" =>
          /\ DOMAIN cells' = DOMAIN cells
          /\ \A i \in 0 .. 80 :
                /\ cells'[i].isFixed = cells[i].isFixed
                /\ cells'[i].row = cells[i].row
                /\ cells'[i].column = cells[i].column
                /\ i # calcCellIndexFromBoardPosition(call'.row, call'.col)
                       => cells'[i].value = cells[i].value ]_vars

\* C28 witness: setCellValue has written a nonzero value into one non-fixed
\* cell while another non-fixed cell, written before, holds a different
\* nonzero value
C28_Witness ==
    /\ call.op = "setCellValue"
    /\ prevOp = "setCellValue"
    /\ ret = "true"
    /\ call.value # 0
    /\ cells[calledIdx].value = call.value
    /\ \E i \in 0 .. 80 :
          /\ i # calledIdx
          /\ ~cells[i].isFixed
          /\ cells[i].value # 0
          /\ cells[i].value # call.value

(***************************************************************************)
(* The order of the construction checks.                                   *)
(***************************************************************************)
\* some character of the definition is no decimal digit
HasNonDigit(def) ==
    \E n \in 1 .. Len(def.chars) :
        \A d \in 1 .. 10 : DigitChars[d] # def.chars[n]

\* C29: the construction checks run in a fixed order and the first that
\* fails gives the cause: an input that is no string reports 'not a string'
\* whatever it holds, a string of a length other than 81 reports 'wrong
\* length' also when it holds a character that is no digit, and only a
\* string of 81 characters reports 'invalid cell value'.
C29_FirstFailingCheckReports ==
    status # "pending" =>
        /\ ~boardDef.isString => status = "not a string"
        /\ (boardDef.isString /\ Len(boardDef.chars) # 81
              /\ HasNonDigit(boardDef)) => status = "wrong length"
        /\ status = "wrong length" => boardDef.isString
        /\ status = "invalid cell value" =>
              (boardDef.isString /\ Len(boardDef.chars) = 81)

\* C29 witness: the constructor has rejected, for its length, a string of 82
\* characters that holds a character that is no digit
C29_Witness ==
    /\ call.op = "new"
    /\ status = "wrong length"
    /\ boardDef.isString
    /\ Len(boardDef.chars) = 82
    /\ HasNonDigit(boardDef)

(***************************************************************************)
(* The runner and the board.                                               *)
(***************************************************************************)
\* the index of the board cell at the runner's active cell
activeIdx ==
    calcCellIndexFromBoardPosition(runner.activeCell[1], runner.activeCell[2])

\* C21: the runner changes cell values only through Board.setCellValue and
\* Board.restart: a step in which some cell value changes is no click, no
\* arrow key and no key pressed without an active cell; it is either
\* SudokuRunner.restart or a key pressed with an active cell, and then no
\* cell but the active one has changed its value.  The draws are part of
\* the handlers.
C21_RunnerWritesThroughBoard ==
    [][ (\E i \in 0 .. 80 : cells'[i].value # cells[i].value) =>
          /\ ~ \E evt \in ClickCoords : HandleClick(evt)
          /\ ~ \E key \in KeyCodes :
                  /\ key \in 37 .. 40 \/ runner.activeCell = << >>
                  /\ HandleKeydown(key)
          /\ \/ RunnerRestart
             \/ /\ runner.activeCell # << >>
                /\ \E key \in KeyCodes : HandleKeydown(key)
                /\ \A i \in 0 .. 80 :
                      i # activeIdx => cells'[i].value = cells[i].value ]_vars

\* C21 witness: a number key pressed with the cell (1, 2) active has written
\* its number into that cell while the cell (1, 1) holds another number
C21_Witness ==
    /\ call.op = "handleKeydown"
    /\ call.row = 1
    /\ call.col = 2
    /\ call.value = 4
    /\ runner.activeCell = << 1, 2 >>
    /\ cells[1].value = 4
    /\ cells[0].value = 8

\* C30: every key event handleKeydown processes leads to setCellValue being
\* called with a value in 0..9 only, so no key writes a value outside 0..9
\* into the board.  The code contradicts it: the main-row range ends at key
\* code 58 and the numpad range at 106, one past the codes of the digit 9,
\* and these two keys give the number 10.
C30_KeysWriteDigitsOnly ==
    (call.op = "handleKeydown" /\ call.row # 0) =>
        /\ call.value \in 0 .. 9
        /\ cells[calledIdx].value \in 0 .. 9

(***************************************************************************)
(* The runner's cached state against the board.                            *)
(***************************************************************************)
\* the cell a click event falls on: a Cell, or null as the empty tuple
clickedCell(evt) ==
    LET boardPosition ==
            calcCanvasCoordsFromPageCoords(evt.pageX, evt.pageY)
    IN  getCellAtBoardCoords(cells, boardPosition.boardX,
                             boardPosition.boardY)

\* the key codes of the digits 1..9, main row and numpad
DigitKeys == (49 .. 57) \cup (97 .. 105)

digitOf(key) == IF key <= 57 THEN key - 48 ELSE key - 96

\* C31: after every runner operation (click, keydown, SudokuRunner.restart)
\* the runner's won flag equals board.hasWon(), also after a restart that
\* follows a win.  The code contradicts it: SudokuRunner.restart resets the
\* board and leaves the flag as it is.
C31_WonFlagIsHasWon ==
    call.op \in {"handleClick", "handleKeydown", "SudokuRunner.restart"}
        => (runner.hasWon <=> hasWon(cells))

\* C32: after SudokuRunner.restart(), whatever preceded it, a click on a
\* non-fixed cell makes that cell the active cell, and a digit key 1..9
\* that follows the click writes its digit into that cell.  The code
\* contradicts it: after a win the won flag stays true over the restart and
\* handleClick returns at once.
C32_PlayResumesAfterRestart ==
    [][ /\ (call.op = "SudokuRunner.restart" /\ call'.op = "handleClick") =>
              \A evt \in ClickCoords :
                  ( /\ clickedCell(evt) # << >>
                    /\ ~clickedCell(evt)[1].isFixed
                    /\ HandleClick(evt) )
                  => runner'.activeCell = << clickedCell(evt)[1].row,
                                             clickedCell(evt)[1].column >>
        /\ (call.op = "handleClick" /\ call'.op = "handleKeydown"
              /\ runner.activeCell # << >>) =>
              \A key \in KeyCodes \cap DigitKeys :
                  HandleKeydown(key) =>
                      cells'[activeIdx].value = digitOf(key) ]_vars

\* C33: while the won flag is false, after a number key and after
\* SudokuRunner.restart the runner's conflicts list denotes the same set of
\* positions as board.getConflicts() on the current board.  The code
\* contradicts it: SudokuRunner.restart resets the board and leaves the
\* list as it is, so a fixed cell stays drawn in the conflict colour.
C33_ConflictsAreCurrent ==
    ( /\ ~runner.hasWon
      /\ \/ call.op = "SudokuRunner.restart"
         \/ call.op = "handleKeydown" /\ call.row # 0 )
        => LET found == conflictIndices(cells)
           IN  { runner.conflicts[k] : k \in 1 .. Len(runner.conflicts) }
               = { found[k] : k \in 1 .. Len(found) }

(***************************************************************************)
(* The active cell.                                                        *)
(***************************************************************************)
\* C34: in every reachable runner state the active cell is null or a
\* position inside the 9x9 grid whose board cell is not fixed, and so every
\* setCellValue that handleNumberInput issues returns true.
C34_ActiveCellIsPlayable ==
    /\ [](runner.activeCell # << >> =>
             /\ runner.activeCell[1] \in 1 .. 9
             /\ runner.activeCell[2] \in 1 .. 9
             /\ ~cells[activeIdx].isFixed)
    /\ [][ (call'.op = "handleKeydown" /\ call'.row # 0) =>
              setCellValue(cells, call'.row, call'.col, call'.value).ret ]_vars

\* C34 witness: a number key pressed with the non-fixed cell (1, 1) active
\* has written its number into the board
C34_Witness ==
    /\ call.op = "handleKeydown"
    /\ call.row = 1
    /\ call.col = 1
    /\ call.value = 10
    /\ runner.activeCell = << 1, 1 >>
    /\ cells[0].value = 10
    /\ ~cells[0].isFixed

(***************************************************************************)
(* Arrow-key navigation.                                                   *)
(***************************************************************************)
\* the positions that lie from (r, c) in the direction of an arrow key, in
\* the same row for left (37) and right (39) and in the same column for up
\* (38) and down (40), each with its distance from (r, c)
towards(r, c, key) ==
    CASE key = 37 -> { [pos |-> << r, k >>, dist |-> c - k] : k \in 1 .. c - 1 }
      [] key = 38 -> { [pos |-> << k, c >>, dist |-> r - k] : k \in 1 .. r - 1 }
      [] key = 39 -> { [pos |-> << r, k >>, dist |-> k - c] : k \in c + 1 .. 9 }
      [] key = 40 -> { [pos |-> << k, c >>, dist |-> k - r] : k \in r + 1 .. 9 }

\* the nearest non-fixed cell from the active cell in the direction of the
\* key, or the active cell when every cell up to the edge is fixed
nearestNonFixed(key) ==
    LET free == { t \in towards(runner.activeCell[1], runner.activeCell[2],
                                key) :
                    ~cells[calcCellIndexFromBoardPosition(t.pos[1],
                                                          t.pos[2])].isFixed }
    IN  IF free = {}
        THEN runner.activeCell
        ELSE (CHOOSE t \in free : \A u \in free : t.dist <= u.dist).pos

\* the number of cells the search steps onto
RECURSIVE searchSteps(_, _, _)
searchSteps(cs, cell, direction) ==
    LET next == getAdjacentCell(cs, cell, direction)
    IN  IF next = << >>
        THEN 0
        ELSE IF next[1].isFixed
        THEN 1 + searchSteps(cs, next[1], direction)
        ELSE 1

\* C35: arrow-key navigation terminates: with an active cell the search
\* steps onto at most 8 cells, and the key sets the active cell to the
\* nearest non-fixed cell in its direction, in the same row for left and
\* right and in the same column for up and down, or leaves the active cell
\* unchanged when every cell up to the edge of the grid is fixed.
C35_ArrowFindsNearestNonFixed ==
    [][ (runner.activeCell # << >> /\ call'.op = "handleKeydown") =>
          \A key \in 37 .. 40 :
              \/ /\ runner'.activeCell = nearestNonFixed(key)
                 /\ searchSteps(cells,
                                [row |-> runner.activeCell[1],
                                 column |-> runner.activeCell[2]],
                                key - 37) <= 8
                 /\ cells' = cells
              \/ ~HandleKeydown(key) ]_vars

\* C35 witness: the cell (8, 2), whose four neighbours are fixed and on
\* which no click of the model falls, is active after an arrow key: the
\* search has stepped over three fixed cells
C35_Witness ==
    /\ call.op = "handleKeydown"
    /\ call.row = 0
    /\ runner.activeCell = << 8, 2 >>
    /\ cells[63].isFixed
    /\ cells[65].isFixed
    /\ cells[55].isFixed
    /\ cells[73].isFixed

====
